---- MODULE Spec2Model ----
(***************************************************************************)
(* rs-car-ipfs: reconstruction of a single UnixFS file from a CAR stream.  *)
(*                                                                         *)
(* Two engines are modelled from the source:                               *)
(*   read_single_file_seek      src/src/single_file/single_file_seek.rs    *)
(*   read_single_file_buffered  src/src/single_file.rs                     *)
(*                                                                         *)
(* The CAR decoder (rs_car::CarReader) and the UnixFS protobuf decoder     *)
(* (FlatUnixFs::try_from) are external: the CAR source is an input that    *)
(* delivers, one at a time, a block of the block universe `dag`, and the   *)
(* parse of a block is the FlatUnixFs record that `dag` holds for its CID  *)
(* (blocks are hash-addressed and the reader validates the hash, so one    *)
(* CID has one content).                                                   *)
(*                                                                         *)
(* Rust's 0-based indices are kept: items_ptr, out_ptr, start and the sink *)
(* position are 0-based offsets; TLA+ sequences are 1-based, so the        *)
(* element at offset i is s[i + 1].                                        *)
(***************************************************************************)
EXTENDS Integers, Sequences, FiniteSets, TLC

VARIABLES
    engine,               \* "seek" | "buffered": which function was called
    dag,                  \* the block universe: CID -> parsed FlatUnixFs
    header_roots,         \* streamer.header.roots
    expected_root,        \* the root_cid argument, an Option
    write_limit,          \* the write_limit argument, an Option (seek)
    max_buffer,           \* the max_buffer argument, an Option (buffered)
    pc,                   \* "start" | "next" | "drain" | "done"
    streamer,             \* the CAR source: "open" | "eof" | "err"
    nread,                \* the number of blocks the source has delivered
    delivered,            \* the CIDs of the blocks delivered so far
    repeated,             \* some block was delivered more than once
    in_order,             \* the blocks delivered are a prefix of the depth-first CAR
    root_cid,             \* the resolved root
    nodes,                \* HashMap<Cid, UnixFsNode>
    sorted_items,         \* SortedLinks.sorted_items
    items_ptr,            \* SortedLinks.items_ptr
    out_ptr,              \* the seek engine's write head
    total_bytes_written,  \* the seek engine's byte count
    buffered_data_len,    \* the buffered engine's byte count
    out,                  \* the sink's contents
    out_pos,              \* the sink's position
    ops,                  \* the log of the seek engine's sink operations
    drain_iters,          \* the number of iterations of the drain loop's body so far
    result                \* the call's outcome

vars == << engine, dag, header_roots, expected_root, write_limit, max_buffer,
           pc, streamer, nread, delivered, repeated, in_order, root_cid, nodes, sorted_items, items_ptr,
           out_ptr, total_bytes_written, buffered_data_len, out, out_pos,
           ops, drain_iters, result >>

config == << engine, dag, header_roots, expected_root, write_limit, max_buffer >>

-----------------------------------------------------------------------------
(* Bounds of the model.                                                     *)

\* The CAR source delivers at most MaxBlocks blocks.
MaxBlocks == 4
\* The root node has at most MaxLinks links.
MaxLinks == 2
\* The caps tried for write_limit and max_buffer are 0..MaxLimit.
MaxLimit == 2
\* The CAR header lists at most MaxRoots roots.
MaxRoots == 2

(* The sparse-write threshold of the seek engine: `data.len() >= 32`.       *)
SparseMin == 32

-----------------------------------------------------------------------------
(* Option<T>: None is the empty sequence, Some(x) a sequence of one.        *)

None == << >>
Some(x) == << x >>
IsSome(o) == o # None
Unwrap(o) == o[1]

(* The outcome of the call.                                                 *)
Running == [tag |-> "Running"]
Ok == [tag |-> "Ok"]
Err(t) == [tag |-> t]
ErrWith(t, p) == [tag |-> t, payload |-> p]
\* ReadSingleFileError::UnexpectedHeaderRoots { expected, actual }
UnexpectedHeaderRoots(e, a) == [tag |-> "UnexpectedHeaderRoots", expected |-> e, actual |-> a]
\* a Rust panic (unwrap / expect on None): the call aborts
Panic == [tag |-> "Panic"]

RECURSIVE Zeros(_)
Zeros(n) == IF n = 0 THEN << >> ELSE << 0 >> \o Zeros(n - 1)

InSeq(x, s) == \E i \in 1..Len(s) : s[i] = x

RECURSIVE SeqsUpTo(_, _)
\* the sequences over S of length at most n
SeqsUpTo(S, n) ==
    IF n = 0 THEN { << >> }
    ELSE LET shorter == SeqsUpTo(S, n - 1)
         IN  shorter \cup { Append(s, x) : s \in { t \in shorter : Len(t) = n - 1 }, x \in S }

-----------------------------------------------------------------------------
(* The block universe.  A parsed block is a FlatUnixFs record: the UnixFS   *)
(* type, the optional Data field and the PBLinks, each with an optional     *)
(* Hash.  The root "R" is a File; it links to the inner link node "L" and   *)
(* to the leaves "A" and "B", or is itself a leaf.  The DAG is acyclic: "L" *)
(* links to two leaves.                                                     *)

Cids == { "R", "L", "A", "B" }
LeafCids == { "A", "B" }

PBLink(h) == [Hash |-> Some(h)]
LinkNode(type, children) ==
    [Type |-> type, Data |-> None, Links |-> [i \in 1..Len(children) |-> PBLink(children[i])]]
LeafNode(type, bytes) ==
    [Type |-> type, Data |-> Some(bytes), Links |-> << >>]

(* The contents tried for the leaves: short ones, an empty one, all-zero    *)
(* runs just below, at and above the sparse threshold, and a long leaf that *)
(* is not all zero.                                                         *)
LeafProfiles ==
    { [R |-> << 7 >>,               A |-> << 1, 2 >>,                 B |-> << 3 >>],
      [R |-> Zeros(SparseMin),      A |-> Zeros(SparseMin),           B |-> Zeros(SparseMin - 1)],
      [R |-> << >>,                 A |-> Zeros(SparseMin) \o << 1 >>, B |-> Zeros(SparseMin + 1)] }

RootLinkChoices == SeqsUpTo({ "L", "A", "B" }, MaxLinks)
InnerLinkChoices == { << x, y >> : x \in LeafCids, y \in LeafCids }

MkDag(rl, ll, p) ==
    [c \in Cids |->
        CASE c = "R" -> IF rl = << >> THEN LeafNode("File", p.R) ELSE LinkNode("File", rl)
          [] c = "L" -> LinkNode("File", ll)
          [] c = "A" -> LeafNode("Raw", p.A)
          [] OTHER   -> LeafNode("Raw", p.B)]

Dags == { MkDag(rl, ll, p) : rl \in RootLinkChoices, ll \in InnerLinkChoices, p \in LeafProfiles }

Limits == { None } \cup { Some(k) : k \in 0..MaxLimit }

-----------------------------------------------------------------------------
(* The sink: a growable byte vector with a position (futures::io::Cursor    *)
(* over a Vec<u8> in the tests, a file in the binary).  A write at a        *)
(* position past the end fills the gap with zeros.                          *)

WriteAt(buf, pos, bytes) ==
    LET padded == IF pos > Len(buf) THEN buf \o Zeros(pos - Len(buf)) ELSE buf
    IN  SubSeq(padded, 1, pos) \o bytes \o SubSeq(padded, pos + Len(bytes) + 1, Len(padded))

\* data.iter().all(|&x| x == 0)
AllZero(data) == \A i \in 1..Len(data) : data[i] = 0

\* a slip: the sparse path seeks len bytes forward, not len - 1
WriteLeafData_seeks_len(buf, pos, data) ==
    IF Len(data) >= SparseMin /\ AllZero(data)
    THEN LET p == pos + Len(data)
         IN  [out |-> WriteAt(buf, p, << 0 >>), pos |-> p + 1, path |-> "sparse"]
    ELSE [out |-> WriteAt(buf, pos, data), pos |-> pos + Len(data), path |-> "verbatim"]

(***************************************************************************)
(* single_file_seek.rs 89-101: the write of a leaf's data at the sink's    *)
(* current position.  A run of at least 32 zero bytes is not written: the  *)
(* sink seeks forward len - 1 and one zero byte is written.                *)
(***************************************************************************)
WriteLeafData(buf, pos, data) ==
    IF Len(data) >= SparseMin /\ AllZero(data)
    THEN LET p == pos + (Len(data) - 1)
         IN  [out |-> WriteAt(buf, p, << 0 >>), pos |-> p + 1, path |-> "sparse"]
    ELSE [out |-> WriteAt(buf, pos, data), pos |-> pos + Len(data), path |-> "verbatim"]

\* a slip: the bytes copied are not added to the total
copy_from_to_itself_not_counted(r, src_offset, dest_offset, size, total, limit) ==
    IF IsSome(limit) /\ total + size > Unwrap(limit)
    THEN [res |-> ErrWith("WriteLimitExceeded", total + size),
          out |-> r.out, pos |-> r.pos, total |-> total, path |-> "none"]
    ELSE IF src_offset + size > Len(r.out)
    THEN [res |-> Err("IoError"),
          out |-> r.out, pos |-> Len(r.out), total |-> total, path |-> "none"]
    ELSE LET buffer == SubSeq(r.out, src_offset + 1, src_offset + size)
         IN  IF Len(buffer) >= SparseMin /\ AllZero(buffer)
             THEN LET p == dest_offset + (Len(buffer) - 1)
                  IN  [res |-> Ok, out |-> WriteAt(r.out, p, << 0 >>), pos |-> p + 1,
                       total |-> total, path |-> "sparse"]
             ELSE [res |-> Ok, out |-> WriteAt(r.out, dest_offset, buffer),
                   pos |-> dest_offset + Len(buffer),
                   total |-> total, path |-> "verbatim"]

\* a slip: the seek back to dest_offset is missing, the buffer is written
\* where the read ended
copy_from_to_itself_no_seek_back(r, src_offset, dest_offset, size, total, limit) ==
    IF IsSome(limit) /\ total + size > Unwrap(limit)
    THEN [res |-> ErrWith("WriteLimitExceeded", total + size),
          out |-> r.out, pos |-> r.pos, total |-> total, path |-> "none"]
    ELSE IF src_offset + size > Len(r.out)
    THEN [res |-> Err("IoError"),
          out |-> r.out, pos |-> Len(r.out), total |-> total, path |-> "none"]
    ELSE LET buffer == SubSeq(r.out, src_offset + 1, src_offset + size)
             here == src_offset + size
         IN  IF Len(buffer) >= SparseMin /\ AllZero(buffer)
             THEN LET p == here + (Len(buffer) - 1)
                  IN  [res |-> Ok, out |-> WriteAt(r.out, p, << 0 >>), pos |-> p + 1,
                       total |-> total + size, path |-> "sparse"]
             ELSE [res |-> Ok, out |-> WriteAt(r.out, here, buffer),
                   pos |-> here + Len(buffer),
                   total |-> total + size, path |-> "verbatim"]

(***************************************************************************)
(* copy_from_to_itself: seek to src_offset, read_exact size bytes, seek to *)
(* dest_offset, write the buffer by the same sparse rule.  r is the sink   *)
(* (contents and position).  read_exact fails (IoError) when the sink ends *)
(* before size bytes were read.                                            *)
(***************************************************************************)
copy_from_to_itself(r, src_offset, dest_offset, size, total, limit) ==
    IF IsSome(limit) /\ total + size > Unwrap(limit)
    THEN [res |-> ErrWith("WriteLimitExceeded", total + size),
          out |-> r.out, pos |-> r.pos, total |-> total, path |-> "none"]
    ELSE IF src_offset + size > Len(r.out)
    THEN [res |-> Err("IoError"),
          out |-> r.out, pos |-> Len(r.out), total |-> total, path |-> "none"]
    ELSE LET buffer == SubSeq(r.out, src_offset + 1, src_offset + size)
         IN  IF Len(buffer) >= SparseMin /\ AllZero(buffer)
             THEN LET p == dest_offset + (Len(buffer) - 1)
                  IN  [res |-> Ok, out |-> WriteAt(r.out, p, << 0 >>), pos |-> p + 1,
                       total |-> total + size, path |-> "sparse"]
             ELSE [res |-> Ok, out |-> WriteAt(r.out, dest_offset, buffer),
                   pos |-> dest_offset + Len(buffer),
                   total |-> total + size, path |-> "verbatim"]

-----------------------------------------------------------------------------
(* SortedLinks<T>: sorted_items and items_ptr.                              *)

FindResult == { "IsNext", "NotNext", "Unknown" }

\* a slip: any position in the tail counts as the next
find_anywhere(items, ptr, item) ==
    LET hits == { i \in (ptr + 1)..Len(items) : items[i] = item }
    IN  IF hits = { } THEN "Unknown" ELSE "IsNext"

\* .iter().skip(items_ptr).position(|x| *x == item)
find(items, ptr, item) ==
    LET hits == { i \in (ptr + 1)..Len(items) : items[i] = item }
    IN  IF hits = { } THEN "Unknown"
        ELSE IF (CHOOSE i \in hits : \A j \in hits : i <= j) = ptr + 1 THEN "IsNext"
        ELSE "NotNext"

\* sorted_items.get(items_ptr)
first(items, ptr) == IF ptr < Len(items) THEN Some(items[ptr + 1]) ELSE None

\* a slip: the cursor is not moved
advance_stays(items, ptr) ==
    IF ptr >= Len(items)
    THEN [res |-> ErrWith("InternalError", "attempting to increase items_ptr beyond items length"),
          ptr |-> ptr]
    ELSE [res |-> Ok, ptr |-> ptr]

advance(items, ptr) ==
    IF ptr >= Len(items)
    THEN [res |-> ErrWith("InternalError", "attempting to increase items_ptr beyond items length"),
          ptr |-> ptr]
    ELSE [res |-> Ok, ptr |-> ptr + 1]

\* a slip: the last element is not counted as remaining
remaining_but_last(items, ptr) ==
    IF ptr + 1 >= Len(items) THEN None ELSE Some(SubSeq(items, ptr + 1, Len(items)))

remaining(items, ptr) ==
    IF ptr >= Len(items) THEN None ELSE Some(SubSeq(items, ptr + 1, Len(items)))

\* a slip: the children are spliced in from the last to the first
insert_replace_reversed(items, root, children) ==
    LET hits == { i \in 1..Len(items) : items[i] = root }
        n == Len(children)
    IN  IF hits = { } THEN items
        ELSE LET index == CHOOSE i \in hits : \A j \in hits : i <= j
             IN  SubSeq(items, 1, index - 1)
                     \o [i \in 1..n |-> children[n + 1 - i]]
                     \o SubSeq(items, index + 1, Len(items))

\* a slip: the last occurrence of root is the one replaced (rposition)
insert_replace_last(items, root, children) ==
    LET hits == { i \in 1..Len(items) : items[i] = root }
    IN  IF hits = { } THEN items
        ELSE LET index == CHOOSE i \in hits : \A j \in hits : i >= j
             IN  SubSeq(items, 1, index - 1) \o children \o SubSeq(items, index + 1, Len(items))

\* a slip: root is removed and the children are pushed at the end
insert_replace_appends(items, root, children) ==
    LET hits == { i \in 1..Len(items) : items[i] = root }
    IN  IF hits = { } THEN items
        ELSE LET index == CHOOSE i \in hits : \A j \in hits : i <= j
             IN  SubSeq(items, 1, index - 1) \o SubSeq(items, index + 1, Len(items)) \o children

\* the first index (from 0) holding root is spliced out for children
insert_replace(items, root, children) ==
    LET hits == { i \in 1..Len(items) : items[i] = root }
    IN  IF hits = { } THEN items
        ELSE LET index == CHOOSE i \in hits : \A j \in hits : i <= j
             IN  SubSeq(items, 1, index - 1) \o children \o SubSeq(items, index + 1, Len(items))

(* UnixFsNode *)
Links(l) == [kind |-> "Links", links |-> l]
DataPtr(s, z) == [kind |-> "DataPtr", start |-> s, size |-> z]
Data(d) == [kind |-> "Data", data |-> d]

\* HashMap::insert: a later insert under the same key replaces the value
Insert(m, k, v) == [x \in (DOMAIN m) \cup { k } |-> IF x = k THEN v ELSE m[x]]
\* HashMap::get
Get(m, k) == IF k \in DOMAIN m THEN Some(m[k]) ELSE None

\* a slip: the first root is taken whenever the header lists any
assert_header_single_file_first_root(roots, arg) ==
    IF IsSome(arg) THEN [res |-> Ok, root |-> Unwrap(arg)]
    ELSE IF Len(roots) >= 1 THEN [res |-> Ok, root |-> roots[1]]
    ELSE [res |-> [tag |-> "NotSingleRoot", roots |-> roots], root |-> "-"]

(***************************************************************************)
(* util.rs: assert_header_single_file.  A root_cid given by the caller is  *)
(* returned as it is; without one the header must list exactly one root.   *)
(***************************************************************************)
assert_header_single_file(roots, arg) ==
    IF IsSome(arg) THEN [res |-> Ok, root |-> Unwrap(arg)]
    ELSE IF Len(roots) = 1 THEN [res |-> Ok, root |-> roots[1]]
    ELSE [res |-> [tag |-> "NotSingleRoot", roots |-> roots], root |-> "-"]

\* util.rs: hash_to_cid, Cid::try_from(hash)
hash_to_cid(hash) ==
    IF hash \in Cids THEN [res |-> Ok, cid |-> hash]
    ELSE [res |-> ErrWith("InvalidUnixFsHash", hash), cid |-> "-"]

RECURSIVE links_to_cids(_)
(***************************************************************************)
(* util.rs: links_to_cids.  The first link without a Hash fails with       *)
(* PBLinkHasNoHash, the first Hash that is no CID with InvalidUnixFsHash.  *)
(***************************************************************************)
links_to_cids(links) ==
    IF links = << >> THEN [res |-> Ok, cids |-> << >>]
    ELSE LET link == Head(links)
         IN  IF ~IsSome(link.Hash) THEN [res |-> Err("PBLinkHasNoHash"), cids |-> << >>]
             ELSE LET c == hash_to_cid(Unwrap(link.Hash))
                  IN  IF c.res # Ok THEN [res |-> c.res, cids |-> << >>]
                      ELSE LET rest == links_to_cids(Tail(links))
                           IN  IF rest.res # Ok THEN rest
                               ELSE [res |-> Ok, cids |-> << c.cid >> \o rest.cids]

-----------------------------------------------------------------------------
(* The CAR source.  A CAR written by an honest producer holds the blocks    *)
(* reachable from the root in depth-first order, each distinct block once   *)
(* (DfsOrder); the file it encodes is the concatenation of the leaves in    *)
(* layout order (FileBytes).  The source itself may deliver any block of    *)
(* the universe at any time.                                                *)

source == << nread, delivered, repeated, in_order >>

\* the CIDs a parsed node links to (a link without a Hash links to nothing)
Children(node) ==
    LET hashed == SelectSeq(node.Links, LAMBDA l : IsSome(l.Hash))
    IN  [i \in 1..Len(hashed) |-> Unwrap(hashed[i].Hash)]

RECURSIVE Visit(_, _, _)
\* depth-first, pre-order, first visits only: todo is the stack
Visit(d, todo, acc) ==
    IF todo = << >> THEN acc
    ELSE IF InSeq(Head(todo), acc) THEN Visit(d, Tail(todo), acc)
    ELSE Visit(d, Children(d[Head(todo)]) \o Tail(todo), Append(acc, Head(todo)))

DfsOrder(d, root) == Visit(d, << root >>, << >>)

RECURSIVE Layout(_, _)
\* the leaves below the nodes of todo, in file order, with repetitions
Layout(d, todo) ==
    IF todo = << >> THEN << >>
    ELSE IF d[Head(todo)].Links = << >> THEN << Head(todo) >> \o Layout(d, Tail(todo))
    ELSE Layout(d, Children(d[Head(todo)]) \o Tail(todo))

RECURSIVE Concat(_, _)
Concat(d, leaves) ==
    IF leaves = << >> THEN << >>
    ELSE Unwrap(d[Head(leaves)].Data) \o Concat(d, Tail(leaves))

FileBytes(d, root) == Concat(d, Layout(d, << root >>))

Deliver(cid) ==
    /\ nread' = nread + 1
    /\ delivered' = delivered \cup { cid }
    /\ repeated' = (repeated \/ cid \in delivered)
    /\ in_order' = LET order == DfsOrder(dag, "R")
                   IN  in_order /\ nread < Len(order) /\ order[nread + 1] = cid

-----------------------------------------------------------------------------
(* The state before the call.                                               *)

(* An entry of ops: a leaf written from the source ("write") or copied from  *)
(* the sink ("copy"), by the sparse or the verbatim path, size bytes at      *)
(* offset start, read from offset src when copied.                           *)
SinkOp(op, path, cid, start, size, src) ==
    [op |-> op, path |-> path, cid |-> cid, start |-> start, size |-> size, src |-> src]

InitCall ==
    /\ pc = "start"
    /\ streamer = "open"
    /\ nread = 0
    /\ delivered = { }
    /\ repeated = FALSE
    /\ in_order = TRUE
    /\ root_cid = "-"
    /\ nodes = << >>
    /\ sorted_items = << >>
    /\ items_ptr = 0
    /\ out_ptr = 0
    /\ total_bytes_written = 0
    /\ buffered_data_len = 0
    /\ out = << >>
    /\ out_pos = 0
    /\ ops = << >>
    /\ drain_iters = 0
    /\ result = Running

-----------------------------------------------------------------------------
(* read_single_file_seek                                                    *)

(***************************************************************************)
(* Lines 42-52: the header is read, the root resolved, the tracker made.   *)
(***************************************************************************)
SeekStart ==
    /\ engine = "seek"
    /\ pc = "start"
    /\ LET h == assert_header_single_file(header_roots, expected_root)
       IN  IF h.res # Ok
           THEN /\ pc' = "done"
                /\ result' = h.res
                /\ UNCHANGED << root_cid, sorted_items >>
           ELSE /\ pc' = "next"
                /\ root_cid' = h.root
                /\ sorted_items' = << h.root >>
                /\ UNCHANGED result
    /\ nodes' = << >>
    /\ items_ptr' = 0
    /\ out_ptr' = 0
    /\ total_bytes_written' = 0
    /\ UNCHANGED << config, streamer, source, buffered_data_len, out, out_pos, ops,
                    drain_iters >>

\* the engine's own state, as one record
Cur ==
    [pc |-> pc, result |-> result, nodes |-> nodes, sorted_items |-> sorted_items,
     items_ptr |-> items_ptr, out_ptr |-> out_ptr, total |-> total_bytes_written,
     out |-> out, out_pos |-> out_pos, ops |-> ops]

Fail(s, e) == [s EXCEPT !.pc = "done", !.result = e]

\* a slip: start is read after out_ptr was moved
seek_leaf_start_after(s, cid, data, limit) ==
    IF IsSome(limit) /\ s.total + Len(data) > Unwrap(limit)
    THEN Fail(s, ErrWith("WriteLimitExceeded", s.total + Len(data)))
    ELSE LET w == WriteLeafData(s.out, s.out_pos, data)
             size == Len(data)
             start == s.out_ptr + size
             adv == advance(s.sorted_items, s.items_ptr)
             t == [s EXCEPT !.out = w.out, !.out_pos = w.pos,
                            !.total = s.total + size,
                            !.out_ptr = s.out_ptr + size,
                            !.ops = Append(s.ops,
                                SinkOp("write", w.path, cid, s.out_ptr, size, s.out_ptr))]
         IN  IF adv.res # Ok THEN Fail(t, adv.res)
             ELSE [t EXCEPT !.items_ptr = adv.ptr,
                            !.nodes = Insert(s.nodes, cid, DataPtr(start, size)),
                            !.pc = "drain"]

\* a slip: the region written is not recorded in nodes
seek_leaf_not_recorded(s, cid, data, limit) ==
    IF IsSome(limit) /\ s.total + Len(data) > Unwrap(limit)
    THEN Fail(s, ErrWith("WriteLimitExceeded", s.total + Len(data)))
    ELSE LET w == WriteLeafData(s.out, s.out_pos, data)
             size == Len(data)
             start == s.out_ptr
             adv == advance(s.sorted_items, s.items_ptr)
             t == [s EXCEPT !.out = w.out, !.out_pos = w.pos,
                            !.total = s.total + size,
                            !.out_ptr = start + size,
                            !.ops = Append(s.ops,
                                SinkOp("write", w.path, cid, start, size, start))]
         IN  IF adv.res # Ok THEN Fail(t, adv.res)
             ELSE [t EXCEPT !.items_ptr = adv.ptr, !.pc = "drain"]

\* a slip: the limit is compared with the leaf's length alone
seek_leaf_forgets_total(s, cid, data, limit) ==
    IF IsSome(limit) /\ Len(data) > Unwrap(limit)
    THEN Fail(s, ErrWith("WriteLimitExceeded", s.total + Len(data)))
    ELSE LET w == WriteLeafData(s.out, s.out_pos, data)
             size == Len(data)
             start == s.out_ptr
             adv == advance(s.sorted_items, s.items_ptr)
             t == [s EXCEPT !.out = w.out, !.out_pos = w.pos,
                            !.total = s.total + size,
                            !.out_ptr = start + size,
                            !.ops = Append(s.ops,
                                SinkOp("write", w.path, cid, start, size, start))]
         IN  IF adv.res # Ok THEN Fail(t, adv.res)
             ELSE [t EXCEPT !.items_ptr = adv.ptr,
                            !.nodes = Insert(s.nodes, cid, DataPtr(start, size)),
                            !.pc = "drain"]

(***************************************************************************)
(* Lines 82-117, for a leaf that is the next of the tracker: the limit is  *)
(* checked, the data written, the counters and the tracker advanced, and   *)
(* the region recorded under cid.                                          *)
(***************************************************************************)
seek_leaf(s, cid, data, limit) ==
    IF IsSome(limit) /\ s.total + Len(data) > Unwrap(limit)
    THEN Fail(s, ErrWith("WriteLimitExceeded", s.total + Len(data)))
    ELSE LET w == WriteLeafData(s.out, s.out_pos, data)
             size == Len(data)
             start == s.out_ptr
             adv == advance(s.sorted_items, s.items_ptr)
             t == [s EXCEPT !.out = w.out, !.out_pos = w.pos,
                            !.total = s.total + size,
                            !.out_ptr = start + size,
                            !.ops = Append(s.ops,
                                SinkOp("write", w.path, cid, start, size, start))]
         IN  IF adv.res # Ok THEN Fail(t, adv.res)
             ELSE [t EXCEPT !.items_ptr = adv.ptr,
                            !.nodes = Insert(s.nodes, cid, DataPtr(start, size)),
                            !.pc = "drain"]

\* a slip: a link node is classified too, and dropped when the tracker
\* does not hold it
seek_block_classifies_links(s, cid, inner, root, limit) ==
    IF cid = root /\ inner.Type # "File" THEN Fail(s, Err("RootCidIsNotFile"))
    ELSE LET found == find(s.sorted_items, s.items_ptr, cid)
         IN  IF inner.Links = << >>
             THEN IF found = "NotNext" THEN Fail(s, Err("DataNodesNotSorted"))
                  ELSE IF found = "Unknown" THEN s
                  ELSE IF ~IsSome(inner.Data)
                  THEN Fail(s, ErrWith("InvalidUnixFs", "unixfs data node has not Data field"))
                  ELSE seek_leaf(s, cid, Unwrap(inner.Data), limit)
             ELSE IF found = "Unknown" THEN s
             ELSE LET l == links_to_cids(inner.Links)
                  IN  IF l.res # Ok THEN Fail(s, l.res)
                      ELSE [s EXCEPT !.nodes = Insert(s.nodes, cid, Links(l.cids)),
                                     !.pc = "drain"]

\* a slip: the root's type is looked at after the block was handled
seek_block_root_type_last(s, cid, inner, root, limit) ==
    LET t == IF inner.Links = << >>
             THEN LET found == find(s.sorted_items, s.items_ptr, cid)
                  IN  IF found = "NotNext" THEN Fail(s, Err("DataNodesNotSorted"))
                      ELSE IF found = "Unknown" THEN s
                      ELSE IF ~IsSome(inner.Data)
                      THEN Fail(s, ErrWith("InvalidUnixFs", "unixfs data node has not Data field"))
                      ELSE seek_leaf(s, cid, Unwrap(inner.Data), limit)
             ELSE LET l == links_to_cids(inner.Links)
                  IN  IF l.res # Ok THEN Fail(s, l.res)
                      ELSE [s EXCEPT !.nodes = Insert(s.nodes, cid, Links(l.cids)), !.pc = "drain"]
    IN  IF t.pc # "done" /\ cid = root /\ inner.Type # "File"
        THEN Fail(t, Err("RootCidIsNotFile"))
        ELSE t

(***************************************************************************)
(* Lines 54-117: one block of the stream, up to the insert into nodes.     *)
(* A leaf that find() does not know is dropped (continue); a leaf or a     *)
(* link node that was recorded leads to the drain loop.                    *)
(***************************************************************************)
seek_block(s, cid, inner, root, limit) ==
    IF cid = root /\ inner.Type # "File" THEN Fail(s, Err("RootCidIsNotFile"))
    ELSE IF inner.Links = << >>
    THEN LET found == find(s.sorted_items, s.items_ptr, cid)
         IN  IF found = "NotNext" THEN Fail(s, Err("DataNodesNotSorted"))
             ELSE IF found = "Unknown" THEN s
             ELSE IF ~IsSome(inner.Data)
             THEN Fail(s, ErrWith("InvalidUnixFs", "unixfs data node has not Data field"))
             ELSE seek_leaf(s, cid, Unwrap(inner.Data), limit)
    ELSE LET l == links_to_cids(inner.Links)
         IN  IF l.res # Ok THEN Fail(s, l.res)
             ELSE [s EXCEPT !.nodes = Insert(s.nodes, cid, Links(l.cids)), !.pc = "drain"]

\* a slip: a written leaf at the cursor ends the loop, it is not copied
seek_drain_stops_at_written(s, limit) ==
    LET f == first(s.sorted_items, s.items_ptr)
    IN  IF ~IsSome(f) THEN [s EXCEPT !.pc = "next"]
        ELSE LET node == Get(s.nodes, Unwrap(f))
             IN  IF ~IsSome(node) THEN [s EXCEPT !.pc = "next"]
                 ELSE IF Unwrap(node).kind = "DataPtr" THEN [s EXCEPT !.pc = "next"]
                 ELSE [s EXCEPT !.sorted_items =
                                    insert_replace(s.sorted_items, Unwrap(f), Unwrap(node).links)]

(***************************************************************************)
(* Lines 121-153: one iteration of the drain loop.  The element at the     *)
(* cursor is copied from the sink when it is a DataPtr, replaced by its    *)
(* children when it is a Links; the loop ends when it is unknown or the    *)
(* tracker is consumed.                                                    *)
(***************************************************************************)
seek_drain(s, limit) ==
    LET f == first(s.sorted_items, s.items_ptr)
    IN  IF ~IsSome(f) THEN [s EXCEPT !.pc = "next"]
        ELSE LET node == Get(s.nodes, Unwrap(f))
             IN  IF ~IsSome(node) THEN [s EXCEPT !.pc = "next"]
                 ELSE IF Unwrap(node).kind = "DataPtr"
                 THEN LET start == Unwrap(node).start
                          size == Unwrap(node).size
                      IN  IF IsSome(limit) /\ s.total + size > Unwrap(limit)
                          THEN Fail(s, ErrWith("WriteLimitExceeded", s.total + size))
                          ELSE LET c == copy_from_to_itself([out |-> s.out, pos |-> s.out_pos],
                                                            start, s.out_ptr, size, s.total, limit)
                                   t == [s EXCEPT !.out = c.out, !.out_pos = c.pos, !.total = c.total]
                               IN  IF c.res # Ok THEN Fail(t, c.res)
                                   ELSE LET adv == advance(s.sorted_items, s.items_ptr)
                                            u == [t EXCEPT !.out_ptr = s.out_ptr + size,
                                                           !.ops = Append(s.ops,
                                                               SinkOp("copy", c.path, Unwrap(f),
                                                                      s.out_ptr, size, start))]
                                        IN  IF adv.res # Ok THEN Fail(u, adv.res)
                                            ELSE [u EXCEPT !.items_ptr = adv.ptr]
                 ELSE [s EXCEPT !.sorted_items =
                                    insert_replace(s.sorted_items, Unwrap(f), Unwrap(node).links)]

(***************************************************************************)
(* Lines 156-159: the stream has ended.                                    *)
(***************************************************************************)
seek_eof(s) ==
    LET links == remaining(s.sorted_items, s.items_ptr)
    IN  IF IsSome(links)
        THEN Fail(s, ErrWith("PendingLinksAtEOF", Unwrap(links)))
        ELSE Fail(s, Ok)

Become(n) ==
    /\ pc' = n.pc
    /\ result' = n.result
    /\ nodes' = n.nodes
    /\ sorted_items' = n.sorted_items
    /\ items_ptr' = n.items_ptr
    /\ out_ptr' = n.out_ptr
    /\ total_bytes_written' = n.total
    /\ out' = n.out
    /\ out_pos' = n.out_pos
    /\ ops' = n.ops

\* streamer.next() yields the block of cid
SeekBlock(cid) ==
    /\ engine = "seek"
    /\ pc = "next"
    /\ streamer = "open"
    /\ nread < MaxBlocks
    /\ Deliver(cid)
    /\ Become(seek_block(Cur, cid, dag[cid], root_cid, write_limit))
    /\ UNCHANGED << config, streamer, root_cid, buffered_data_len, drain_iters >>

SeekDrain ==
    /\ engine = "seek"
    /\ pc = "drain"
    /\ Become(seek_drain(Cur, write_limit))
    \* `while let Some(first) = sorted_links.first()`: the body runs when there is a first
    /\ drain_iters' = IF IsSome(first(sorted_items, items_ptr))
                      THEN drain_iters + 1 ELSE drain_iters
    /\ UNCHANGED << config, streamer, source, root_cid, buffered_data_len >>

\* streamer.next() yields None
SeekEof ==
    /\ engine = "seek"
    /\ pc = "next"
    /\ streamer = "open"
    /\ streamer' = "eof"
    /\ Become(seek_eof(Cur))
    /\ UNCHANGED << config, source, root_cid, buffered_data_len, drain_iters >>

\* line 55: streamer.next() yields an error, `item?` returns it
SeekDecodeError ==
    /\ engine = "seek"
    /\ pc = "next"
    /\ streamer = "open"
    /\ streamer' = "err"
    /\ Become(Fail(Cur, Err("CarDecodeError")))
    /\ UNCHANGED << config, source, root_cid, buffered_data_len, drain_iters >>

-----------------------------------------------------------------------------
(* read_single_file_buffered                                                *)

(***************************************************************************)
(* single_file.rs 28-47: the root is the caller's, or the header's only    *)
(* root.                                                                   *)
(***************************************************************************)
buffered_root(roots, arg) ==
    IF IsSome(arg) THEN [res |-> Ok, root |-> Unwrap(arg)]
    ELSE IF Len(roots) = 1 THEN [res |-> Ok, root |-> roots[1]]
    ELSE [res |-> [tag |-> "NotSingleRoot", roots |-> roots], root |-> "-"]

BufStart ==
    /\ engine = "buffered"
    /\ pc = "start"
    /\ LET h == buffered_root(header_roots, expected_root)
       IN  IF h.res # Ok
           THEN /\ pc' = "done"
                /\ result' = h.res
                /\ UNCHANGED root_cid
           ELSE /\ pc' = "next"
                /\ root_cid' = h.root
                /\ UNCHANGED result
    /\ nodes' = << >>
    /\ buffered_data_len' = 0
    /\ UNCHANGED << config, streamer, source, sorted_items, items_ptr, out_ptr,
                    total_bytes_written, drain_iters, out, out_pos, ops >>

RECURSIVE buffered_links(_)
(***************************************************************************)
(* single_file.rs 81-84: the links' hashes as CIDs; a link without a Hash  *)
(* panics (expect).                                                        *)
(***************************************************************************)
buffered_links(links) ==
    IF links = << >> THEN [res |-> Ok, cids |-> << >>]
    ELSE LET link == Head(links)
         IN  IF ~IsSome(link.Hash) THEN [res |-> Panic, cids |-> << >>]
             ELSE LET c == hash_to_cid(Unwrap(link.Hash))
                  IN  IF c.res # Ok THEN [res |-> c.res, cids |-> << >>]
                      ELSE LET rest == buffered_links(Tail(links))
                           IN  IF rest.res # Ok THEN rest
                               ELSE [res |-> Ok, cids |-> << c.cid >> \o rest.cids]

\* a slip: a total equal to the cap is refused (>= for >)
buffered_block_refuses_equal(s, cid, inner, root, limit) ==
    IF cid = root /\ inner.Type # "File" THEN Fail(s, Err("RootCidIsNotFile"))
    ELSE IF Len(inner.Links) = 0
    THEN IF ~IsSome(inner.Data) THEN Fail(s, Panic)
         ELSE LET data == Unwrap(inner.Data)
                  len == IF IsSome(limit) THEN s.len + Len(data) ELSE s.len
              IN  IF IsSome(limit) /\ len >= Unwrap(limit)
                  THEN Fail([s EXCEPT !.len = len], ErrWith("MaxBufferedData", Unwrap(limit)))
                  ELSE [s EXCEPT !.len = len, !.nodes = Insert(s.nodes, cid, Data(data))]
    ELSE LET l == buffered_links(inner.Links)
         IN  IF l.res # Ok THEN Fail(s, l.res)
             ELSE [s EXCEPT !.nodes = Insert(s.nodes, cid, Links(l.cids))]

(***************************************************************************)
(* single_file.rs 51-88: one block of the stream.  s is the record of      *)
(* pc, result, nodes and buffered_data_len.                                *)
(***************************************************************************)
buffered_block(s, cid, inner, root, limit) ==
    IF cid = root /\ inner.Type # "File" THEN Fail(s, Err("RootCidIsNotFile"))
    ELSE IF Len(inner.Links) = 0
    THEN IF ~IsSome(inner.Data) THEN Fail(s, Panic)
         ELSE LET data == Unwrap(inner.Data)
                  len == IF IsSome(limit) THEN s.len + Len(data) ELSE s.len
              IN  IF IsSome(limit) /\ len > Unwrap(limit)
                  THEN Fail([s EXCEPT !.len = len], ErrWith("MaxBufferedData", Unwrap(limit)))
                  ELSE [s EXCEPT !.len = len, !.nodes = Insert(s.nodes, cid, Data(data))]
    ELSE LET l == buffered_links(inner.Links)
         IN  IF l.res # Ok THEN Fail(s, l.res)
             ELSE [s EXCEPT !.nodes = Insert(s.nodes, cid, Links(l.cids))]

RECURSIVE flatten_tree(_, _)
RECURSIVE flatten_links(_, _)
RECURSIVE flatten_links_once(_, _)
\* a slip: a child that is linked again later in the same node is skipped
flatten_links_once(m, links) ==
    IF links = << >> THEN [res |-> Ok, out |-> << >>]
    ELSE IF InSeq(Head(links), Tail(links)) THEN flatten_links_once(m, Tail(links))
    ELSE LET h == flatten_tree(m, Head(links))
         IN  IF h.res # Ok THEN h
             ELSE LET t == flatten_links_once(m, Tail(links))
                  IN  IF t.res # Ok THEN t
                      ELSE [res |-> Ok, out |-> h.out \o t.out]

\* a slip: a CID that nodes does not hold contributes nothing
flatten_tree_skips_missing(m, c) ==
    LET node == Get(m, c)
    IN  IF ~IsSome(node) THEN [res |-> Ok, out |-> << >>]
        ELSE IF Unwrap(node).kind = "Data" THEN [res |-> Ok, out |-> << Unwrap(node).data >>]
        ELSE flatten_links(m, Unwrap(node).links)

(***************************************************************************)
(* single_file.rs 97-117: the leaves' data below root_cid, depth first, a  *)
(* link node's children in order; the first CID that nodes does not hold   *)
(* fails with MissingNode.                                                 *)
(***************************************************************************)
flatten_tree(m, c) ==
    LET node == Get(m, c)
    IN  IF ~IsSome(node) THEN [res |-> ErrWith("MissingNode", c), out |-> << >>]
        ELSE IF Unwrap(node).kind = "Data" THEN [res |-> Ok, out |-> << Unwrap(node).data >>]
        ELSE flatten_links(m, Unwrap(node).links)

\* lines 109-113: the loop over the links
flatten_links(m, links) ==
    IF links = << >> THEN [res |-> Ok, out |-> << >>]
    ELSE LET h == flatten_tree(m, Head(links))
         IN  IF h.res # Ok THEN h
             ELSE LET t == flatten_links(m, Tail(links))
                  IN  IF t.res # Ok THEN t
                      ELSE [res |-> Ok, out |-> h.out \o t.out]

RECURSIVE write_all(_, _, _)
\* lines 90-92: out.write_all(data) for each data, at the sink's position
write_all(buf, pos, datas) ==
    IF datas = << >> THEN [out |-> buf, pos |-> pos]
    ELSE write_all(WriteAt(buf, pos, Head(datas)), pos + Len(Head(datas)), Tail(datas))

RECURSIVE leaves_before_missing(_, _)
\* the data of the leaves that the walk of m from the stack todo meets
\* before the first CID that m does not hold
leaves_before_missing(m, todo) ==
    IF todo = << >> THEN << >>
    ELSE IF Head(todo) \notin DOMAIN m THEN << >>
    ELSE IF m[Head(todo)].kind = "Data"
    THEN << m[Head(todo)].data >> \o leaves_before_missing(m, Tail(todo))
    ELSE leaves_before_missing(m, m[Head(todo)].links \o Tail(todo))

\* a slip: the leaves are written while the tree is walked, before the walk
\* is known to succeed
buffered_finish_writes_first(m, root, buf, pos) ==
    LET f == flatten_tree(m, root)
        w == write_all(buf, pos, leaves_before_missing(m, << root >>))
    IN  [res |-> f.res, out |-> w.out, pos |-> w.pos]

(***************************************************************************)
(* single_file.rs 90-94: the tree is flattened and, if that succeeded, its *)
(* leaves are written in order.                                            *)
(***************************************************************************)
buffered_finish(m, root, buf, pos) ==
    LET f == flatten_tree(m, root)
    IN  IF f.res # Ok
        THEN [res |-> f.res, out |-> buf, pos |-> pos]
        ELSE LET w == write_all(buf, pos, f.out)
             IN  [res |-> Ok, out |-> w.out, pos |-> w.pos]

BufCur == [pc |-> pc, result |-> result, nodes |-> nodes, len |-> buffered_data_len]

BufBlock(cid) ==
    /\ engine = "buffered"
    /\ pc = "next"
    /\ streamer = "open"
    /\ nread < MaxBlocks
    /\ Deliver(cid)
    /\ LET n == buffered_block(BufCur, cid, dag[cid], root_cid, max_buffer)
       IN  /\ pc' = n.pc
           /\ result' = n.result
           /\ nodes' = n.nodes
           /\ buffered_data_len' = n.len
    /\ UNCHANGED << config, streamer, root_cid, sorted_items, items_ptr, out_ptr,
                    total_bytes_written, drain_iters, out, out_pos, ops >>

(***************************************************************************)
(* single_file.rs 90-94: the stream has ended; the tree is flattened and,  *)
(* if that succeeded, written.                                             *)
(***************************************************************************)
BufEof ==
    /\ engine = "buffered"
    /\ pc = "next"
    /\ streamer = "open"
    /\ streamer' = "eof"
    /\ pc' = "done"
    /\ LET n == buffered_finish(nodes, root_cid, out, out_pos)
       IN  /\ result' = n.res
           /\ out' = n.out
           /\ out_pos' = n.pos
    /\ UNCHANGED << config, source, root_cid, nodes, sorted_items, items_ptr, out_ptr,
                    total_bytes_written, drain_iters, buffered_data_len, ops >>

\* line 52: streamer.next() yields an error, `item?` returns it
BufDecodeError ==
    /\ engine = "buffered"
    /\ pc = "next"
    /\ streamer = "open"
    /\ streamer' = "err"
    /\ pc' = "done"
    /\ result' = Err("CarDecodeError")
    /\ UNCHANGED << config, source, root_cid, nodes, sorted_items, items_ptr, out_ptr,
                    total_bytes_written, drain_iters, buffered_data_len, out, out_pos, ops >>

-----------------------------------------------------------------------------
(* The calls checked.                                                       *)

\* A CAR whose header lists the root of the file, which the caller gives too.
Init ==
    /\ engine \in { "seek", "buffered" }
    /\ dag \in Dags
    /\ header_roots = << "R" >>
    /\ expected_root = Some("R")
    /\ write_limit \in (IF engine = "seek" THEN Limits ELSE { None })
    /\ max_buffer \in (IF engine = "buffered" THEN Limits ELSE { None })
    /\ InitCall

\* Any header of at most MaxRoots roots, with and without a root from the
\* caller, over one file: root -> [L, A], L -> [A, B].
RootsDags ==
    { d \in Dags : Children(d["R"]) = << "L", "A" >> /\ Children(d["L"]) = << "A", "B" >> }

InitRoots ==
    /\ engine \in { "seek", "buffered" }
    /\ dag \in RootsDags
    /\ header_roots \in SeqsUpTo({ "R", "L" }, MaxRoots)
    /\ expected_root \in { None, Some("R"), Some("L") }
    /\ write_limit = None
    /\ max_buffer = None
    /\ InitCall

(* Blocks that break the schema.  Over the files root -> [L, A],           *)
(* root -> [A, L] and a root that is a leaf (L -> [A, B]), the root's      *)
(* UnixFS type is File or Directory and at most one block has a defect: a  *)
(* leaf without its Data field, or a link without its Hash.                *)
RootTypes == { "File", "Directory" }

SchemaDefects ==
    { [kind |-> "none", cid |-> "-", idx |-> 0] }
    \cup { [kind |-> "data", cid |-> c, idx |-> 0] : c \in { "R", "A", "B" } }
    \cup { [kind |-> "hash", cid |-> c, idx |-> i] : c \in { "R", "L" }, i \in 1..2 }

\* the block of c, with the links children or the data bytes, under the defect f
SchemaNode(c, children, type, bytes, f) ==
    IF children = << >>
    THEN [Type |-> type,
          Data |-> IF f.kind = "data" /\ f.cid = c THEN None ELSE Some(bytes),
          Links |-> << >>]
    ELSE [Type |-> type,
          Data |-> None,
          Links |-> [i \in 1..Len(children) |->
                        IF f.kind = "hash" /\ f.cid = c /\ f.idx = i
                        THEN [Hash |-> None]
                        ELSE PBLink(children[i])]]

MkSchemaDag(rl, t, f) ==
    [c \in Cids |->
        CASE c = "R" -> SchemaNode("R", rl, t, << 7 >>, f)
          [] c = "L" -> SchemaNode("L", << "A", "B" >>, "File", << >>, f)
          [] c = "A" -> SchemaNode("A", << >>, "Raw", << 1, 2 >>, f)
          [] OTHER   -> SchemaNode("B", << >>, "Raw", << 3 >>, f)]

SchemaDags ==
    { MkSchemaDag(rl, t, f) :
        rl \in { << >>, << "L", "A" >>, << "A", "L" >> },
        t \in RootTypes,
        f \in SchemaDefects }

InitSchema ==
    /\ engine \in { "seek", "buffered" }
    /\ dag \in SchemaDags
    /\ header_roots = << "R" >>
    /\ expected_root = Some("R")
    /\ write_limit = None
    /\ max_buffer = None
    /\ InitCall

Next ==
    \/ SeekStart
    \/ \E cid \in Cids : SeekBlock(cid)
    \/ SeekDrain
    \/ SeekEof
    \/ SeekDecodeError
    \/ BufStart
    \/ \E cid \in Cids : BufBlock(cid)
    \/ BufEof
    \/ BufDecodeError

Spec == Init /\ [][Next]_vars

SpecRoots == InitRoots /\ [][Next]_vars

SpecSchema == InitSchema /\ [][Next]_vars

(* A call on a finite CAR, run to its end: the function is polled until it  *)
(* returns, and the source, which holds at most MaxBlocks blocks, yields    *)
(* its next item (a block, the end of the stream or an error) when asked.   *)
(* The files are a root that is a leaf, a root over two leaves and the      *)
(* roots over the inner node, with and without repeated links.              *)
LiveDags ==
    { MkDag(rl, ll, [R |-> << 7 >>, A |-> << 1, 2 >>, B |-> << 3 >>]) :
        rl \in { << >>, << "L", "L" >>, << "L", "A" >>, << "A", "L" >>, << "A", "B" >> },
        ll \in { << "A", "A" >>, << "A", "B" >> } }

InitLive ==
    /\ engine \in { "seek", "buffered" }
    /\ dag \in LiveDags
    /\ header_roots = << "R" >>
    /\ expected_root = Some("R")
    /\ write_limit = None
    /\ max_buffer = None
    /\ InitCall

SpecLive == InitLive /\ [][Next]_vars /\ WF_vars(Next)

-----------------------------------------------------------------------------
(* Notions the properties share.                                            *)

\* the root of the file the CAR encodes
FileRoot == "R"
Order == DfsOrder(dag, FileRoot)
Reachable == { Order[i] : i \in 1..Len(Order) }
FileLayout == Layout(dag, << FileRoot >>)
F == FileBytes(dag, FileRoot)

\* every block is as an honest producer writes it: the root a File, every
\* leaf with its Data, every link with a Hash that is a CID
Honest(d) ==
    /\ d[FileRoot].Type = "File"
    /\ \A c \in Cids :
        /\ d[c].Links = << >> => IsSome(d[c].Data)
        /\ \A i \in 1..Len(d[c].Links) :
            IsSome(d[c].Links[i].Hash) /\ Unwrap(d[c].Links[i].Hash) \in Cids

\* the call names the file's root, and so does the header
RootGiven == expected_root = Some(FileRoot) /\ header_roots = << FileRoot >>

\* the cap, if any, is not below n
Allows(limit, n) == ~IsSome(limit) \/ Unwrap(limit) >= n

\* some CID occurs twice in the file's layout, or a link node is linked twice
HasRepeat(s) == \E i, j \in 1..Len(s) : i < j /\ s[i] = s[j]

\* the CAR source has ended, or failed, before the whole CAR was delivered
Truncated == in_order /\ nread < Len(Order)

-----------------------------------------------------------------------------
(* C1.  Seek engine correctness: for the CAR that serializes the file's DAG *)
(* depth first, each distinct block once, with the root given by the caller *)
(* and listed by the header, the call ends only at the end of the stream,   *)
(* returns Ok, and the sink (empty and at 0 before) holds exactly F.        *)
(* A call that fails on a prefix of that CAR violates it, and so does one   *)
(* that ends on the whole CAR with another outcome or other bytes.  The     *)
(* write limit, if any, is at least the file's length.                      *)
C1_SeekCorrect ==
    ( /\ engine = "seek"
      /\ Honest(dag)
      /\ RootGiven
      /\ Allows(write_limit, Len(F))
      /\ in_order
      /\ pc = "done"
      /\ streamer # "err"
      /\ ~(streamer = "eof" /\ nread < Len(Order)) )
    => ( /\ streamer = "eof"
         /\ result = Ok
         /\ out = F )

\* a whole depth-first CAR of four blocks was read, for a file whose layout
\* repeats a leaf and holds a sparse run, and the call returned Ok
C1_Witness ==
    /\ engine = "seek"
    /\ RootGiven
    /\ in_order
    /\ pc = "done"
    /\ streamer = "eof"
    /\ nread = Len(Order)
    /\ nread = 4
    /\ HasRepeat(FileLayout)
    /\ Len(F) > SparseMin
    /\ result = Ok
    /\ out = F

-----------------------------------------------------------------------------
(* C2.  Buffered engine correctness: without a buffer cap, on blocks of an  *)
(* honest DAG in any arrival order, the call ends only at the end of the    *)
(* stream; if by then every block reachable from the root was delivered it  *)
(* returns Ok and the sink holds the leaves' data in depth-first order, a   *)
(* leaf linked k times k times.                                             *)
C2_BufferedCorrect ==
    ( /\ engine = "buffered"
      /\ Honest(dag)
      /\ root_cid = FileRoot
      /\ max_buffer = None
      /\ pc = "done"
      /\ streamer # "err" )
    => ( /\ streamer = "eof"
         /\ Reachable \subseteq delivered => (result = Ok /\ out = F) )

\* four blocks arrived in an order that is not depth first, the layout
\* repeats a leaf, and the file was written
C2_Witness ==
    /\ engine = "buffered"
    /\ root_cid = FileRoot
    /\ max_buffer = None
    /\ pc = "done"
    /\ streamer = "eof"
    /\ ~in_order
    /\ nread = 4
    /\ Reachable = Cids
    /\ Reachable \subseteq delivered
    /\ HasRepeat(FileLayout)
    /\ result = Ok
    /\ out = F
    /\ Len(out) > 2

-----------------------------------------------------------------------------
(* Deduplication in the seek engine.                                        *)

\* the offset of the i-th leaf of the layout in the file
RECURSIVE OffsetOf(_, _, _)
OffsetOf(d, layout, i) ==
    IF i = 1 THEN 0
    ELSE OffsetOf(d, layout, i - 1) + Len(Unwrap(d[layout[i - 1]].Data))

\* the first position of the layout that holds the leaf of position i
FirstAt(layout, i) == CHOOSE j \in 1..i : layout[j] = layout[i] /\ \A k \in 1..(j - 1) : layout[k] # layout[i]

\* ops is the layout, leaf by leaf: the first occurrence of a leaf written
\* from the source, every later one copied from the region of the first
CopiesFromFirstWrite ==
    /\ Len(ops) = Len(FileLayout)
    /\ \A i \in 1..Len(ops) :
        LET c == FileLayout[i]
            j == FirstAt(FileLayout, i)
        IN  /\ ops[i].cid = c
            /\ ops[i].size = Len(Unwrap(dag[c].Data))
            /\ ops[i].start = OffsetOf(dag, FileLayout, i)
            /\ ops[i].op = (IF j = i THEN "write" ELSE "copy")
            /\ ops[i].src = OffsetOf(dag, FileLayout, j)
            /\ Get(nodes, c) = Some(DataPtr(OffsetOf(dag, FileLayout, j), ops[i].size))

(* C3 as claimed, read in its favour (every block of the DAG is delivered,  *)
(* none twice, in whatever order): for a layout that repeats a leaf or a    *)
(* link node, the seek engine returns Ok and the sink holds F.  A call that *)
(* fails before the end of such a CAR violates it.                          *)
C3_AnyOrderOnce ==
    ( /\ engine = "seek"
      /\ Honest(dag)
      /\ RootGiven
      /\ Allows(write_limit, Len(F))
      /\ HasRepeat(FileLayout)
      /\ ~repeated
      /\ delivered \subseteq Reachable
      /\ pc = "done"
      /\ streamer # "err"
      /\ streamer = "eof" => delivered = Reachable )
    => ( /\ streamer = "eof"
         /\ result = Ok
         /\ out = F )

(* C3, amended: for the depth-first CAR (each distinct block exactly once,  *)
(* in depth-first order) of a file whose layout repeats a leaf or a link    *)
(* node, the seek engine returns Ok, the sink holds F, and every occurrence *)
(* of a leaf after its first is a copy of the region recorded at its first  *)
(* write.                                                                   *)
C3_DedupInOrder ==
    ( /\ engine = "seek"
      /\ Honest(dag)
      /\ RootGiven
      /\ Allows(write_limit, Len(F))
      /\ HasRepeat(FileLayout)
      /\ in_order
      /\ pc = "done"
      /\ streamer # "err"
      /\ ~(streamer = "eof" /\ nread < Len(Order)) )
    => ( /\ streamer = "eof"
         /\ result = Ok
         /\ out = F
         /\ CopiesFromFirstWrite )

\* the layout [A][B][A][B] through a link node linked twice: CAR [R, L, A, B]
C3_Witness ==
    /\ engine = "seek"
    /\ RootGiven
    /\ in_order
    /\ pc = "done"
    /\ streamer = "eof"
    /\ nread = Len(Order)
    /\ FileLayout = << "A", "B", "A", "B" >>
    /\ result = Ok
    /\ out = F
    /\ Len(ops) = 4
    /\ ops[3].op = "copy" /\ ops[3].src = 0
    /\ ops[4].op = "copy" /\ ops[4].src > 0

-----------------------------------------------------------------------------
(* C4.  Root authority, as claimed: when the caller gives expected_root and *)
(* the header's roots are not exactly [expected_root], the call (either     *)
(* engine) fails with UnexpectedHeaderRoots{expected, actual} and the sink  *)
(* holds no byte.                                                           *)
C4_RootAuthority ==
    ( /\ IsSome(expected_root)
      /\ header_roots # << Unwrap(expected_root) >>
      /\ pc # "start" )
    => ( /\ pc = "done"
         /\ result.tag = "UnexpectedHeaderRoots"
         /\ result.expected = Unwrap(expected_root)
         /\ out = << >> )

-----------------------------------------------------------------------------
(* C5.  Root resolution without a root from the caller: both engines take   *)
(* the header's root if and only if the header lists exactly one; otherwise *)
(* the call fails with NotSingleRoot{roots}, roots being the header's list, *)
(* before any block is read and before any byte is written.                 *)
C5_RootResolution ==
    ( ~IsSome(expected_root) /\ pc # "start" )
    => IF Len(header_roots) = 1
       THEN /\ root_cid = header_roots[1]
            /\ result.tag # "NotSingleRoot"
       ELSE /\ pc = "done"
            /\ result = [tag |-> "NotSingleRoot", roots |-> header_roots]
            /\ root_cid = "-"
            /\ streamer = "open"
            /\ nread = 0
            /\ nodes = << >>
            /\ out = << >>

\* a header of two roots and no root from the caller: NotSingleRoot
C5_Witness ==
    /\ engine = "seek"
    /\ ~IsSome(expected_root)
    /\ header_roots = << "R", "L" >>
    /\ pc = "done"
    /\ result = [tag |-> "NotSingleRoot", roots |-> << "R", "L" >>]
    /\ nread = 0

-----------------------------------------------------------------------------
(* Steps of the seek engine, as the properties name them.                   *)

\* the data of the leaf c
LeafData(c) == Unwrap(dag[c].Data)
IsLeaf(c) == dag[c].Links = << >>

\* the tracker's tail: the elements at and after the cursor
Tail_ == SubSeq(sorted_items, items_ptr + 1, Len(sorted_items))

\* this step is the arrival of the leaf c at the cursor: a write from the
\* source of LeafData(c) is due
LeafDue(c) ==
    /\ SeekBlock(c)
    /\ IsLeaf(c)
    /\ IsSome(dag[c].Data)
    /\ first(sorted_items, items_ptr) = Some(c)
    /\ ~(c = root_cid /\ dag[c].Type # "File")

\* this step is a drain iteration with a written leaf at the cursor: a copy
\* of its region is due
CopyDue ==
    /\ SeekDrain
    /\ items_ptr < Len(sorted_items)
    /\ sorted_items[items_ptr + 1] \in DOMAIN nodes
    /\ nodes[sorted_items[items_ptr + 1]].kind = "DataPtr"

CopySize == nodes[sorted_items[items_ptr + 1]].size

\* the sink and the engine's counters are as before the step
SinkUntouched ==
    /\ out' = out
    /\ out_pos' = out_pos
    /\ out_ptr' = out_ptr
    /\ total_bytes_written' = total_bytes_written
    /\ ops' = ops

-----------------------------------------------------------------------------

\* a write or copy of len bytes under the cap: refused with the sink as it
\* was when the total would pass the cap, carried out and counted otherwise
WriteCapStep(len) ==
    LET K == Unwrap(write_limit)
    IN  IF total_bytes_written + len > K
        THEN /\ pc' = "done"
             /\ result' = ErrWith("WriteLimitExceeded", total_bytes_written + len)
             /\ SinkUntouched
        ELSE /\ result' = Running
             /\ total_bytes_written' = total_bytes_written + len
             /\ Len(ops') = Len(ops) + 1

(* C6.  Write-limit cap of the seek engine: with write_limit = K, in every  *)
(* state total_written <= K (and the sink holds at most K bytes); a leaf    *)
(* write or a copy of len bytes happens only if total_written + len <= K,   *)
(* and otherwise the call fails with WriteLimitExceeded(total_written+len)  *)
(* and the sink is as it was before that write or copy.                     *)
C6_WriteLimit ==
    [][ (engine = "seek" /\ IsSome(write_limit)) =>
          /\ total_bytes_written' <= Unwrap(write_limit)
          /\ Len(out') <= Unwrap(write_limit)
          /\ \A c \in Cids : LeafDue(c) => WriteCapStep(Len(LeafData(c)))
          /\ CopyDue => WriteCapStep(CopySize)
          /\ ops' # ops => (CopyDue \/ \E c \in Cids : LeafDue(c))
          /\ (result'.tag = "WriteLimitExceeded" /\ result.tag = "Running") => SinkUntouched
      ]_vars

\* a copy was refused after a write that filled the limit exactly
C6_Witness ==
    /\ engine = "seek"
    /\ write_limit = Some(2)
    /\ total_bytes_written = 2
    /\ Len(out) = 2
    /\ Len(ops) = 1
    /\ pc = "done"
    /\ result = ErrWith("WriteLimitExceeded", 4)

-----------------------------------------------------------------------------

\* this step is the arrival of the leaf c at the buffered engine
BufLeafDue(c) ==
    /\ BufBlock(c)
    /\ IsLeaf(c)
    /\ IsSome(dag[c].Data)
    /\ ~(c = root_cid /\ dag[c].Type # "File")

RECURSIVE HeldBytes(_, _)
\* the bytes of the leaves that the map m holds under the keys S
HeldBytes(m, S) ==
    IF S = { } THEN 0
    ELSE LET c == CHOOSE x \in S : TRUE
         IN  (IF m[c].kind = "Data" THEN Len(m[c].data) ELSE 0) + HeldBytes(m, S \ { c })

(* C7.  Buffer cap of the buffered engine: with max_buffer = K every leaf   *)
(* that arrives adds its length to buffered_data_len; the call fails with   *)
(* MaxBufferedData(K) as soon as that total is above K, and a total equal   *)
(* to K is accepted; the failure leaves the sink empty, and the leaves held *)
(* in nodes are at most K bytes when the sink is first written.             *)
C7_BufferCap ==
    [][ (engine = "buffered" /\ IsSome(max_buffer)) =>
          LET K == Unwrap(max_buffer)
          IN  /\ \A c \in Cids : BufLeafDue(c) =>
                    /\ buffered_data_len' = buffered_data_len + Len(LeafData(c))
                    /\ IF buffered_data_len' > K
                       THEN /\ pc' = "done"
                            /\ result' = ErrWith("MaxBufferedData", K)
                            /\ nodes' = nodes
                       ELSE /\ pc' = "next"
                            /\ result' = Running
                            /\ Get(nodes', c) = Some(Data(LeafData(c)))
              /\ result'.tag = "MaxBufferedData" => (out' = << >> /\ out_pos' = 0)
              /\ HeldBytes(nodes', DOMAIN nodes') <= buffered_data_len'
              /\ out' # out =>
                    /\ result' = Ok
                    /\ buffered_data_len <= K
                    /\ HeldBytes(nodes, DOMAIN nodes) <= K
      ]_vars

\* leaves of exactly K bytes in total were accepted and the file written
C7_Witness ==
    /\ engine = "buffered"
    /\ max_buffer = Some(2)
    /\ buffered_data_len = 2
    /\ pc = "done"
    /\ result = Ok
    /\ Len(out) = 4

-----------------------------------------------------------------------------
(* C8.  Incompleteness detection of the seek engine: at the end of the CAR  *)
(* source the call returns Ok if and only if the tracker's tail is empty,   *)
(* and otherwise PendingLinksAtEOF(tail), tail being the elements from the  *)
(* cursor to the end; so a depth-first CAR cut short (any non-empty suffix  *)
(* of its blocks dropped, all of them included) never yields Ok.            *)
C8_Incomplete ==
    ( engine = "seek" /\ pc = "done" ) =>
        /\ streamer = "eof" =>
              IF Tail_ = << >> THEN result = Ok
              ELSE result = ErrWith("PendingLinksAtEOF", Tail_)
        /\ (Honest(dag) /\ root_cid = FileRoot /\ Truncated) => result # Ok

\* the CAR ended after three of its four blocks, one leaf written and two
\* elements still pending
C8_Witness ==
    /\ engine = "seek"
    /\ pc = "done"
    /\ streamer = "eof"
    /\ Truncated
    /\ nread = 3
    /\ items_ptr = 1
    /\ result.tag = "PendingLinksAtEOF"
    /\ Len(result.payload) = 2
    /\ Len(ops) = 1

-----------------------------------------------------------------------------
AsVerbatim(bytes, at) ==
    LET o == ops'[Len(ops')]
    IN  /\ (o.path = "sparse") <=> (Len(bytes) >= SparseMin /\ AllZero(bytes))
        /\ o.start = at
        /\ out' = WriteAt(out, at, bytes)
        /\ out_pos' = at + Len(bytes)
        /\ o.path = "sparse" => \A i \in (at + 1)..(at + Len(bytes)) : out'[i] = 0

(* C9.  Sparse equivalence: a leaf write or a copy takes the sparse path    *)
(* exactly when its bytes are at least 32 and all zero; after it the sink   *)
(* holds zeros in [out_ptr, out_ptr + len) and is at out_ptr + len: the     *)
(* sink's contents and position are those that writing the len bytes        *)
(* verbatim leaves.                                                         *)
C9_SparseEquivalence ==
    [][ engine = "seek" =>
          /\ \A c \in Cids : (LeafDue(c) /\ ops' # ops) => AsVerbatim(LeafData(c), out_ptr)
          /\ (CopyDue /\ ops' # ops) =>
                LET node == nodes[sorted_items[items_ptr + 1]]
                IN  AsVerbatim(SubSeq(out, node.start + 1, node.start + node.size), out_ptr)
      ]_vars

\* a sparse leaf was written by the sparse path and copied by it too
C9_Witness ==
    /\ engine = "seek"
    /\ Len(ops) >= 3
    /\ \E i, j \in 1..Len(ops) :
        /\ ops[i].op = "write" /\ ops[i].path = "sparse" /\ ops[i].start > 0
        /\ ops[j].op = "copy" /\ ops[j].path = "sparse"
    /\ Len(out) = out_ptr
    /\ AllZero(out)

-----------------------------------------------------------------------------
(* C10.  Leaf ordering check of the seek engine: a leaf that arrives while  *)
(* its CID is in the tracker's tail but not at the cursor makes the call    *)
(* fail with DataNodesNotSorted, nothing being written for it; a leaf is    *)
(* written from the source only when its CID is the element at the cursor.  *)
C10_LeafOrder ==
    [][ engine = "seek" =>
          \A c \in Cids : (SeekBlock(c) /\ IsLeaf(c)) =>
              /\ ( /\ InSeq(c, Tail_)
                   /\ first(sorted_items, items_ptr) # Some(c)
                   /\ ~(c = root_cid /\ dag[c].Type # "File") )
                 => ( /\ pc' = "done"
                      /\ result' = Err("DataNodesNotSorted")
                      /\ nodes' = nodes
                      /\ SinkUntouched )
              /\ ops' # ops =>
                    /\ first(sorted_items, items_ptr) = Some(c)
                    /\ ops' = Append(ops, ops'[Len(ops')])
                    /\ ops'[Len(ops')].op = "write"
                    /\ ops'[Len(ops')].cid = c
      ]_vars

\* after one leaf was written, a leaf arrived that is pending but not next
C10_Witness ==
    /\ engine = "seek"
    /\ pc = "done"
    /\ result = Err("DataNodesNotSorted")
    /\ Len(ops) >= 1
    /\ items_ptr < Len(sorted_items)
    /\ nread >= 3

-----------------------------------------------------------------------------
(* C11.  Root type check: in both engines, when the block of the resolved   *)
(* root arrives and its UnixFS type is not File, the call fails with        *)
(* RootCidIsNotFile; the block is neither classified nor recorded, and in   *)
(* the seek engine no byte of it reaches the sink.                          *)
C11_RootType ==
    [][ \A c \in Cids :
          ((SeekBlock(c) \/ BufBlock(c)) /\ c = root_cid /\ dag[c].Type # "File") =>
              /\ pc' = "done"
              /\ result' = Err("RootCidIsNotFile")
              /\ nodes' = nodes
              /\ sorted_items' = sorted_items /\ items_ptr' = items_ptr
              /\ out' = out /\ out_pos' = out_pos /\ ops' = ops
              /\ out_ptr' = out_ptr /\ total_bytes_written' = total_bytes_written
      ]_vars

\* a root that is a leaf with data and a Directory arrived second at the
\* seek engine: the call failed and the sink is empty
C11_Witness ==
    /\ engine = "seek"
    /\ dag["R"].Type = "Directory"
    /\ dag["R"].Links = << >>
    /\ dag["R"].Data = Some(<< 7 >>)
    /\ nread = 2
    /\ "R" \in delivered
    /\ result = Err("RootCidIsNotFile")
    /\ out = << >>

-----------------------------------------------------------------------------

RECURSIVE FirstMissing(_, _)
\* the first CID that the map m does not hold, on the depth-first walk of
\* the nodes of m from the stack todo; None when the walk meets none
FirstMissing(m, todo) ==
    IF todo = << >> THEN None
    ELSE IF Head(todo) \notin DOMAIN m THEN Some(Head(todo))
    ELSE IF m[Head(todo)].kind = "Links"
    THEN FirstMissing(m, m[Head(todo)].links \o Tail(todo))
    ELSE FirstMissing(m, Tail(todo))

(* C12.  Missing node (buffered engine): when the stream has ended and the  *)
(* depth-first walk from the root meets a CID that nodes does not hold (the *)
(* root or a child), the call fails with MissingNode of the first such CID  *)
(* in depth-first order and the sink is not written; when the walk meets    *)
(* none, the call does not fail with MissingNode.                           *)
C12_MissingNode ==
    (engine = "buffered" /\ streamer = "eof" /\ pc = "done") =>
        LET missing == FirstMissing(nodes, << root_cid >>)
        IN  IF IsSome(missing)
            THEN /\ result = ErrWith("MissingNode", Unwrap(missing))
                 /\ out = << >>
                 /\ out_pos = 0
            ELSE result = Ok

\* the root, the inner node and the first leaf arrived, the second leaf of
\* the inner node did not: it is the one named
C12_Witness ==
    /\ engine = "buffered"
    /\ streamer = "eof"
    /\ Children(dag["R"]) = << "L", "A" >>
    /\ Children(dag["L"]) = << "A", "B" >>
    /\ DOMAIN nodes = { "R", "L", "A" }
    /\ result = ErrWith("MissingNode", "B")
    /\ out = << >>

-----------------------------------------------------------------------------

RECURSIVE TreeNodes(_, _)
\* the number of nodes of the tree that the DAG d unfolds to below the nodes
\* of todo: every occurrence of a link node and of a leaf counts
TreeNodes(d, todo) ==
    IF todo = << >> THEN 0
    ELSE 1 + TreeNodes(d, Children(d[Head(todo)]) \o Tail(todo))

(* C13 as claimed, with the linear bound read block by block: each of the   *)
(* N blocks delivered accounts for at most one iteration of the drain loop  *)
(* that expands or copies it and one that finds the next element unknown.   *)
C13_DrainLinear ==
    engine = "seek" => drain_iters <= 2 * nread

(* C13.  Termination: on a finite CAR over an acyclic DAG both engines      *)
(* reach a terminal outcome (Ok or an error), and the drain loop of the     *)
(* seek engine ends: the iterations of its body are at most the nodes of    *)
(* the tree the DAG unfolds to (each occurrence of a link node is expanded  *)
(* once, each occurrence of a leaf copied at most once) plus one for every  *)
(* block delivered (the iteration that finds the next element unknown).     *)
C13_Termination ==
    /\ <>(pc = "done")
    /\ []((engine = "seek" /\ pc # "start") =>
            drain_iters <= TreeNodes(dag, << root_cid >>) + nread)

\* the file root -> [L, L], L -> [A, A] was rebuilt from its three blocks in
\* eight iterations of the drain loop
C13_Witness ==
    /\ engine = "seek"
    /\ Children(dag["R"]) = << "L", "L" >>
    /\ Children(dag["L"]) = << "A", "A" >>
    /\ pc = "done"
    /\ result = Ok
    /\ nread = 3
    /\ drain_iters = 8

-----------------------------------------------------------------------------

\* the block c is a link node with a link that has no Hash
LinkWithoutHash(c) ==
    /\ dag[c].Links # << >>
    /\ \E i \in 1..Len(dag[c].Links) : ~IsSome(dag[c].Links[i].Hash)

\* the block c is a leaf without its Data field
LeafWithoutData(c) ==
    /\ dag[c].Links = << >>
    /\ ~IsSome(dag[c].Data)

\* this step handles the block c: it arrived, passed the root type check
\* and, if it is a leaf at the seek engine, is the element at the cursor
Handled(c) ==
    /\ ~(c = root_cid /\ dag[c].Type # "File")
    /\ \/ BufBlock(c)
       \/ SeekBlock(c) /\ (IsLeaf(c) => first(sorted_items, items_ptr) = Some(c))

(* C14.  Schema violations, as claimed: in both engines a link node with a  *)
(* link that has no Hash makes the call fail with PBLinkHasNoHash, a leaf   *)
(* without its Data field makes it fail with InvalidUnixFs, and no call     *)
(* aborts.  (For the seek engine the leaf is one it is about to write.)     *)
C14_SchemaErrors ==
    [][ /\ result'.tag # "Panic"
        /\ \A c \in Cids :
              /\ (Handled(c) /\ LinkWithoutHash(c)) =>
                    (pc' = "done" /\ result' = Err("PBLinkHasNoHash"))
              /\ (Handled(c) /\ LeafWithoutData(c)) =>
                    (pc' = "done" /\ result'.tag = "InvalidUnixFs")
      ]_vars

-----------------------------------------------------------------------------

\* this step is a drain iteration with a known link node at the cursor: it
\* calls insert_replace(first, links)
ExpandDue ==
    /\ SeekDrain
    /\ items_ptr < Len(sorted_items)
    /\ sorted_items[items_ptr + 1] \in DOMAIN nodes
    /\ nodes[sorted_items[items_ptr + 1]].kind = "Links"

\* the offset of the first occurrence of x in s, searching from offset 0
PositionOf(x, s) == (CHOOSE i \in 1..Len(s) : s[i] = x /\ \A j \in 1..(i - 1) : s[j] # x) - 1

(* C15.  insert_replace never replaces an element before the cursor: when   *)
(* the drain loop calls insert_replace(first, children), the first          *)
(* occurrence of first from index 0 is at the cursor; the elements before   *)
(* the cursor stay, the children take the place of the element at the       *)
(* cursor, and the elements after it follow in their order; the cursor      *)
(* does not move.                                                           *)
C15_ReplaceAtCursor ==
    [][ ExpandDue =>
          LET head == sorted_items[items_ptr + 1]
          IN  /\ PositionOf(head, sorted_items) = items_ptr
              /\ items_ptr' = items_ptr
              /\ sorted_items' = SubSeq(sorted_items, 1, items_ptr)
                                    \o nodes[head].links
                                    \o SubSeq(sorted_items, items_ptr + 2, Len(sorted_items))
      ]_vars

\* root -> [A, L], L -> [A, B]: the inner node was expanded at cursor 1,
\* after the leaf before it was written; its first child is that leaf again
C15_Witness ==
    /\ engine = "seek"
    /\ pc = "drain"
    /\ items_ptr = 1
    /\ Children(dag["R"]) = << "A", "L" >>
    /\ Children(dag["L"]) = << "A", "B" >>
    /\ sorted_items = << "A", "A", "B" >>
    /\ nread = 3
    /\ Len(ops) = 1

-----------------------------------------------------------------------------
(* C16.  Tracker invariant of the seek engine: the cursor is between 0 and  *)
(* the length of the sequence; every element before the cursor is recorded  *)
(* in nodes as a DataPtr; advance() is never called with the cursor at the  *)
(* end, so no call ends with InternalError.                                 *)
C16_TrackerInvariant ==
    engine = "seek" =>
        /\ items_ptr \in 0..Len(sorted_items)
        /\ \A i \in 1..items_ptr :
              /\ sorted_items[i] \in DOMAIN nodes
              /\ nodes[sorted_items[i]].kind = "DataPtr"
        /\ result.tag # "InternalError"

\* the cursor reached the end of a sequence of four leaves, two of them
\* advanced over by a leaf write and two by a copy
C16_Witness ==
    /\ engine = "seek"
    /\ Len(sorted_items) = 4
    /\ items_ptr = 4
    /\ Len(ops) = 4
    /\ Cardinality({ i \in 1..4 : ops[i].op = "copy" }) = 2
    /\ result = Ok

-----------------------------------------------------------------------------

RECURSIVE LeafBytesBefore(_)
\* the sum of the lengths of the leaves at the first n places of the tracker
LeafBytesBefore(n) ==
    IF n = 0 THEN 0
    ELSE LeafBytesBefore(n - 1) + Len(LeafData(sorted_items[n]))

\* the write head, the byte count, the leaves consumed and the sink agree
HeadAccounts(ptr, total, cursor, pos, sink) ==
    /\ ptr = total
    /\ ptr = cursor
    /\ ptr = pos
    /\ ptr = Len(sink)

(* C17.  Write-head accounting of the seek engine: from an empty sink at    *)
(* position 0, before and after every step out_ptr = total_written = the    *)
(* sum of the lengths of the leaves before the cursor = the sink's position *)
(* = the sink's length; a leaf write, which does not seek first, lands at   *)
(* offset out_ptr.                                                          *)
C17_WriteHead ==
    [][ engine = "seek" =>
          /\ HeadAccounts(out_ptr, total_bytes_written, LeafBytesBefore(items_ptr),
                          out_pos, out)
          /\ HeadAccounts(out_ptr', total_bytes_written', LeafBytesBefore(items_ptr)',
                          out_pos', out')
          /\ \A c \in Cids : (LeafDue(c) /\ ops' # ops) =>
                /\ ops'[Len(ops')].op = "write"
                /\ ops'[Len(ops')].start = out_ptr
                /\ out' = out \o LeafData(c)
                /\ out_ptr' = out_ptr + Len(LeafData(c))
      ]_vars

\* a leaf of 32 zeros was written by the sparse path and copied once: the
\* head, the count, the position and the length are all 64
C17_Witness ==
    /\ engine = "seek"
    /\ result = Ok
    /\ Len(ops) = 2
    /\ ops[1].path = "sparse"
    /\ ops[2].op = "copy"
    /\ out_ptr = 2 * SparseMin
    /\ total_bytes_written = 2 * SparseMin
    /\ out_pos = 2 * SparseMin
    /\ Len(out) = 2 * SparseMin

-----------------------------------------------------------------------------

\* the region that m records for the leaf c lies below the write head ptr
\* and holds the leaf's data in the sink
RegionHolds(m, c, ptr, sink) ==
    m[c].kind = "DataPtr" =>
        /\ m[c].start + m[c].size <= ptr
        /\ m[c].start + m[c].size <= Len(sink)
        /\ SubSeq(sink, m[c].start + 1, m[c].start + m[c].size) = LeafData(c)

(* C18.  Back-references are well defined (seek engine): for every DataPtr  *)
(* {start, size} of nodes, before and after every step start + size is at   *)
(* most out_ptr and the sink holds the leaf's data in [start, start+size)   *)
(* (so the region is never modified once recorded); a copy reads a region   *)
(* that ends at or before out_ptr and writes [out_ptr, out_ptr+size), which *)
(* does not overlap it, leaving the bytes below out_ptr as they were.       *)
C18_BackReferences ==
    [][ engine = "seek" =>
          /\ \A c \in DOMAIN nodes : RegionHolds(nodes, c, out_ptr, out)
          /\ \A c \in DOMAIN nodes' : RegionHolds(nodes', c, out_ptr', out')
          /\ (CopyDue /\ ops' # ops) =>
                LET c == sorted_items[items_ptr + 1]
                    op == ops'[Len(ops')]
                IN  /\ op.op = "copy"
                    /\ op.src = nodes[c].start
                    /\ op.src + op.size <= out_ptr
                    /\ op.start = out_ptr
                    /\ SubSeq(out', 1, out_ptr) = SubSeq(out, 1, out_ptr)
                    /\ SubSeq(out', out_ptr + 1, out_ptr + op.size) = LeafData(c)
                    /\ nodes' = nodes
      ]_vars

\* root -> [L, B], L -> [A, B]: B was written at offset 2 and copied to
\* offset 3 from there
C18_Witness ==
    /\ engine = "seek"
    /\ "B" \in DOMAIN nodes
    /\ nodes["B"] = DataPtr(2, 1)
    /\ Len(ops) = 3
    /\ ops[3] = SinkOp("copy", "verbatim", "B", 3, 1, 2)
    /\ out = << 1, 2, 3, 3 >>
    /\ result = Ok

-----------------------------------------------------------------------------

\* the seek engine's state apart from the stream: node map, tracker, write
\* head, byte count and sink
SeekUntouched ==
    /\ nodes' = nodes
    /\ sorted_items' = sorted_items
    /\ items_ptr' = items_ptr
    /\ SinkUntouched

\* a leaf of the file was delivered and nodes does not hold it
Unrecorded(c, m, seen) ==
    /\ IsLeaf(c)
    /\ InSeq(c, FileLayout)
    /\ c \in seen
    /\ c \notin DOMAIN m

\* the call ends with the step, and the leaf c of the file was delivered
\* before it and is not recorded: the call went on after c came, so c came
\* when the tracker did not hold it, and it has not come again at its turn
DroppedLeaf(c) ==
    /\ pc # "done"
    /\ pc' = "done"
    /\ Unrecorded(c, nodes, delivered)
    /\ Unrecorded(c, nodes', delivered')

\* a link node that arrives is recorded whether or not the tracker holds
\* it, and nothing else changes
LinkRecorded(c) ==
    (SeekBlock(c) /\ ~IsLeaf(c)) =>
        /\ Get(nodes', c) = Some(Links(Children(dag[c])))
        /\ pc' = "drain"
        /\ sorted_items' = sorted_items /\ items_ptr' = items_ptr
        /\ SinkUntouched

\* a leaf that arrives when the tracker's tail does not hold it is dropped
LeafDropped(c) ==
    (SeekBlock(c) /\ IsLeaf(c) /\ ~InSeq(c, Tail_)) =>
        /\ SeekUntouched
        /\ pc' = "next"
        /\ result' = Running

\* a link node at the cursor is replaced by its children
ExpandedAtHead ==
    ExpandDue =>
        /\ sorted_items'[items_ptr + 1] = Head(nodes[sorted_items[items_ptr + 1]].links)
        /\ Len(sorted_items') =
              Len(sorted_items) - 1 + Len(nodes[sorted_items[items_ptr + 1]].links)

(* C19 as claimed: link nodes are recorded unclassified and expanded at the *)
(* head, unknown leaves are dropped, and a call on a CAR that delivers a    *)
(* leaf of the file before the tracker holds it, and not again, ends in     *)
(* PendingLinksAtEOF (no write limit, no decode error).                     *)
C19_EndsPending ==
    [][ (engine = "seek" /\ root_cid = FileRoot) =>
          /\ \A c \in Cids :
                /\ LinkRecorded(c)
                /\ LeafDropped(c)
                /\ (/\ DroppedLeaf(c)
                    /\ streamer' # "err"
                    /\ write_limit = None
                    /\ ~repeated') =>
                      result'.tag = "PendingLinksAtEOF"
          /\ ExpandedAtHead
      ]_vars

(* C19.  Link nodes are order-tolerant, leaves are not (seek engine).  A    *)
(* link node that arrives is recorded in nodes whether or not the tracker   *)
(* holds its CID, and is replaced by its children in the drain iteration    *)
(* that finds it at the cursor.  A leaf that arrives when the tracker's     *)
(* tail does not hold its CID is dropped: nodes, the tracker, out_ptr,      *)
(* total_written and the sink stay as they were and the call goes on.  A    *)
(* call on a CAR that delivered a leaf of the file only before the tracker  *)
(* held it never returns Ok: it ends in PendingLinksAtEOF at the end of the *)
(* stream, or before that in DataNodesNotSorted (a leaf further on in the   *)
(* tail arrived), WriteLimitExceeded or a decode error.                     *)
C19_OrderTolerance ==
    [][ (engine = "seek" /\ root_cid = FileRoot) =>
          /\ \A c \in Cids :
                /\ LinkRecorded(c)
                /\ LeafDropped(c)
                /\ DroppedLeaf(c) =>
                      /\ result'.tag \in { "PendingLinksAtEOF", "DataNodesNotSorted",
                                           "WriteLimitExceeded", "CarDecodeError" }
                      /\ streamer' = "eof" => result'.tag = "PendingLinksAtEOF"
          /\ ExpandedAtHead
      ]_vars

\* root -> [A, B]: A came before the root and was dropped, the root came
\* and the stream ended: the call returned PendingLinksAtEOF([A, B])
C19_Witness ==
    /\ engine = "seek"
    /\ Children(dag["R"]) = << "A", "B" >>
    /\ nread = 2
    /\ delivered = { "A", "R" }
    /\ DOMAIN nodes = { "R" }
    /\ streamer = "eof"
    /\ result = ErrWith("PendingLinksAtEOF", << "A", "B" >>)
    /\ out = << >>

-----------------------------------------------------------------------------
(* C20.  Write ordering of the buffered engine: the sink is not written     *)
(* before the stream has ended and the whole walk from the root has         *)
(* succeeded: the only step that changes the sink is the one at the end of  *)
(* the stream, and it returns Ok; whenever the call has failed (decode      *)
(* error, RootCidIsNotFile, MaxBufferedData, MissingNode, ...) the sink is  *)
(* as it was before the call.                                               *)
C20_WriteOrdering ==
    [][ engine = "buffered" =>
          /\ (out' # out \/ out_pos' # out_pos) =>
                /\ BufEof
                /\ out = << >> /\ out_pos = 0
                /\ FirstMissing(nodes, << root_cid >>) = None
                /\ result' = Ok
          /\ result' # Ok => (out' = << >> /\ out_pos' = 0)
          /\ streamer' # "eof" => (out' = << >> /\ out_pos' = 0)
      ]_vars

\* the walk found the second leaf missing after a first leaf that nodes
\* holds: nothing of the first leaf was written
C20_Witness ==
    /\ engine = "buffered"
    /\ Children(dag["R"]) = << "A", "B" >>
    /\ DOMAIN nodes = { "R", "A" }
    /\ streamer = "eof"
    /\ result = ErrWith("MissingNode", "B")
    /\ out = << >>
    /\ out_pos = 0

-----------------------------------------------------------------------------

\* the element at the cursor of the tracker (items, ptr), if any, has no
\* record in the node map m
HeadUnrecorded(items, ptr, m) ==
    ptr < Len(items) => items[ptr + 1] \notin DOMAIN m

\* no leaf was written from the source twice
WrittenOnce(log) ==
    \A i, j \in 1..Len(log) :
        (log[i].op = "write" /\ log[j].op = "write" /\ log[i].cid = log[j].cid) => i = j

(* C21.  Drain to fixpoint (seek engine): when a block has been processed   *)
(* and the next is awaited, the element at the cursor, if any, has no       *)
(* record in nodes.  So a leaf that arrives at the cursor is not yet        *)
(* recorded, each distinct leaf is written from the source at most once,    *)
(* and a leaf that arrives again after it was written is dropped when the   *)
(* tail does not hold it and refused with DataNodesNotSorted when the tail  *)
(* holds it; it is never written again.                                     *)
C21_DrainFixpoint ==
    [][ engine = "seek" =>
          /\ pc = "next" => HeadUnrecorded(sorted_items, items_ptr, nodes)
          /\ pc' = "next" => HeadUnrecorded(sorted_items', items_ptr', nodes')
          /\ WrittenOnce(ops')
          /\ \A c \in Cids :
                /\ LeafDue(c) => c \notin DOMAIN nodes
                /\ (SeekBlock(c) /\ IsLeaf(c) /\ c \in DOMAIN nodes) =>
                      /\ nodes[c].kind = "DataPtr"
                      /\ SinkUntouched
                      /\ nodes' = nodes
                      /\ IF InSeq(c, Tail_)
                         THEN pc' = "done" /\ result' = Err("DataNodesNotSorted")
                         ELSE pc' = "next" /\ result' = Running /\ SeekUntouched
      ]_vars

\* root -> [L, A], L -> [A, B]: A was written, B is awaited at the cursor
\* and A, which the tail still holds, arrived again: refused
C21_Witness ==
    /\ engine = "seek"
    /\ sorted_items = << "A", "B", "A" >>
    /\ items_ptr = 1
    /\ delivered = { "R", "L", "A" }
    /\ nread = 4
    /\ nodes["A"].kind = "DataPtr"
    /\ Len(ops) = 1
    /\ result = Err("DataNodesNotSorted")

-----------------------------------------------------------------------------

\* s is a prefix of t
IsPrefix(s, t) == Len(s) <= Len(t) /\ s = SubSeq(t, 1, Len(s))

(* C22.  Prefix soundness (seek engine): for a file DAG with root R and     *)
(* bytes F, whatever blocks of the universe the stream delivers (in any     *)
(* order, repeated, left out, or not referenced by the file), in every      *)
(* state the sink's bytes [0, out_ptr) are a prefix of F and the sink holds *)
(* nothing beyond out_ptr; when the call returns Ok the sink holds exactly  *)
(* F, so a wrong or incomplete file is never reported as success.           *)
C22_PrefixSound ==
    (engine = "seek" /\ pc # "start" /\ result.tag # "NotSingleRoot") =>
        LET file == FileBytes(dag, root_cid)
        IN  /\ out_ptr <= Len(out)
            /\ IsPrefix(SubSeq(out, 1, out_ptr), file)
            /\ IsPrefix(out, file)
            /\ result = Ok => out = file

\* root -> [A, B]: the inner node, which the file does not reference, came
\* first, then the root and the two leaves: Ok, and the sink holds the file
C22_Witness ==
    /\ engine = "seek"
    /\ Children(dag["R"]) = << "A", "B" >>
    /\ delivered = { "L", "R", "A", "B" }
    /\ "L" \in DOMAIN nodes
    /\ ~in_order
    /\ nread = 4
    /\ result = Ok
    /\ out = << 1, 2, 3 >>

====
